---------------------------- MODULE Spec2Model ----------------------------
(***************************************************************************)
(* A model of the download action of ffsend (api/src/action/download.rs):  *)
(* Download::invoke and the functions it calls, the server's responses as  *)
(* inputs, and a progress reader polling the shared ProgressReporter.      *)
(*                                                                         *)
(* Values: an Option is a sequence (<<>> is None, <<x>> is Some(x)); a     *)
(* byte string is a sequence of integers 0..255; a Result is a record      *)
(* [ok, val, err].                                                         *)
(***************************************************************************)
EXTENDS Integers, Sequences, FiniteSets, TLC

(***************************************************************************)
(* Bounds of the model.                                                    *)
(***************************************************************************)
\* Longest header line, in bytes.
MaxHdrLen == 4
\* Plaintext bytes of the longest file body (Content-Length <= TAG_LEN + MaxPlain).
MaxPlain == 2
\* Ciphertext bytes of the longest metadata payload.
MaxMetaCipher == 1
\* Bytes the body stream may deliver beyond the declared Content-Length.
MaxExtra == 1
\* Number of distinct IV values a metadata record may carry.
MaxIv == 2

(***************************************************************************)
(* Program constants.                                                      *)
(***************************************************************************)
\* The length of the authentication tag trailing a ciphertext.
TAG_LEN == 16

\* The bytes header lines are made of: 'Q' (a base64 character, also any
\* scheme letter), ' ', '!' (ASCII, not a base64 character) and 0xFF (a byte
\* no UTF-8 string holds).
ByteSpace == 32
HdrBytes == {81, ByteSpace, 33, 255}

RECURSIVE SeqsUpTo(_, _)
SeqsUpTo(S, n) ==
    IF n = 0 THEN {<<>>}
    ELSE LET shorter == SeqsUpTo(S, n - 1)
         IN  shorter \cup {Append(s, b) : s \in {t \in shorter : Len(t) = n - 1}, b \in S}

Lines == SeqsUpTo(HdrBytes, MaxHdrLen)

\* The raw WWW-Authenticate header of a response: absent (None), sent once,
\* or sent twice (hyper keeps every line of a repeated header).
Headers == {<<>>} \cup {<< <<l>> >> : l \in Lines} \cup {<< <<l, l>> >> : l \in Lines}

Ok(v) == [ok |-> TRUE, val |-> v, err |-> ""]
Err(e) == [ok |-> FALSE, val |-> <<>>, err |-> e]

(***************************************************************************)
(* The library functions the nonce extraction is built from.               *)
(***************************************************************************)
\* hyper's Raw::one: the line if there is exactly one.
RawOne(raw) == IF Len(raw) = 1 THEN <<raw[1]>> ELSE <<>>

\* String::from_utf8 on the bytes of HdrBytes: ASCII bytes are valid, 0xFF
\* never is.
Utf8Valid(line) == \A i \in 1..Len(line) : line[i] < 128

\* str::split(" "): the pieces between the separators, empty ones included.
RECURSIVE Split(_)
Split(s) ==
    IF \A i \in 1..Len(s) : s[i] # ByteSpace THEN <<s>>
    ELSE LET k == CHOOSE i \in 1..Len(s) :
                      s[i] = ByteSpace /\ \A j \in 1..(i - 1) : s[j] # ByteSpace
         IN  <<SubSeq(s, 1, k - 1)>> \o Split(SubSeq(s, k + 1, Len(s)))

\* str::split_terminator(" "): as split, with a trailing empty piece skipped.
SplitTerminator(s) ==
    LET p == Split(s)
    IN  IF p[Len(p)] = <<>> THEN SubSeq(p, 1, Len(p) - 1) ELSE p

\* .skip(1).next(): the second token, if any.
SecondToken(tokens) == IF Len(tokens) >= 2 THEN <<tokens[2]>> ELSE <<>>

\* The 6-bit value of a character of the URL-safe base64 alphabet, -1 for
\* any other character.
B64Val(c) ==
    IF c >= 65 /\ c <= 90 THEN c - 65
    ELSE IF c >= 97 /\ c <= 122 THEN c - 71
    ELSE IF c >= 48 /\ c <= 57 THEN c + 4
    ELSE IF c = 45 THEN 62
    ELSE IF c = 95 THEN 63
    ELSE -1

RECURSIVE B64Num(_)
B64Num(s) ==
    IF s = <<>> THEN 0
    ELSE B64Num(SubSeq(s, 1, Len(s) - 1)) * 64 + B64Val(s[Len(s)])

RECURSIVE Pow(_, _)
Pow(b, e) == IF e = 0 THEN 1 ELSE b * Pow(b, e - 1)

\* crypto::b64::decode: unpadded URL-safe base64. Every character must be of
\* the alphabet and the length must not be 1 modulo 4; n characters decode to
\* (6n div 8) bytes, the bits left over dropped.
B64Decode(s) ==
    IF (\E i \in 1..Len(s) : B64Val(s[i]) < 0) \/ Len(s) % 4 = 1
    THEN Err("DecodeError")
    ELSE LET k == (6 * Len(s)) \div 8
             num == B64Num(s) \div Pow(2, 6 * Len(s) - 8 * k)
         IN  Ok([j \in 1..k |-> (num \div Pow(256, k - j)) % 256])

(***************************************************************************)
(* The nonce extraction of the two handshake stages, on an exchange        *)
(* [sendOk, success, hdr]: whether the request was sent and answered,      *)
(* whether the status is a success, and the raw WWW-Authenticate header.   *)
(***************************************************************************)
Exchanges == [sendOk : BOOLEAN, success : BOOLEAN, hdr : Headers]

\* Download::fetch_auth_nonce, from the response on.
AuthNonceOf(x) ==
    IF ~x.sendOk THEN Err("NonceReqFail")
    ELSE IF ~x.success THEN Err("NonceReqStatusErr")
    ELSE IF x.hdr = <<>> THEN Err("MissingNonceHeader")
    ELSE LET one == RawOne(x.hdr[1])
         IN  IF one = <<>> THEN Err("EmptyNonceHeader")
             ELSE IF ~Utf8Valid(one[1]) THEN Err("MalformedNonceHeader")
             ELSE LET tok == SecondToken(SplitTerminator(one[1]))
                  IN  IF tok = <<>> THEN Err("MissingNonceHeader")
                      ELSE LET d == B64Decode(tok[1])
                           IN  IF d.ok THEN d ELSE Err("MalformedNonce")

\* A variant of MetaNonceOf that takes the first token of the header line.
MetaNonceOf_FirstToken(x) ==
    IF ~x.sendOk THEN Err("NonceReqFail")
    ELSE IF ~x.success THEN Err("NonceReqStatusErr")
    ELSE IF x.hdr = <<>> THEN Err("MissingNonceHeader")
    ELSE LET one == RawOne(x.hdr[1])
         IN  IF one = <<>> THEN Err("EmptyNonceHeader")
             ELSE IF ~Utf8Valid(one[1]) THEN Err("MalformedNonceHeader")
             ELSE LET tokens == SplitTerminator(one[1])
                  IN  IF tokens = <<>> THEN Err("MissingNonceHeader")
                      ELSE LET d == B64Decode(tokens[1])
                           IN  IF d.ok THEN d ELSE Err("MalformedNonce")

\* The header handling of Download::fetch_metadata.
MetaNonceOf(x) ==
    IF ~x.sendOk THEN Err("NonceReqFail")
    ELSE IF ~x.success THEN Err("NonceReqStatusErr")
    ELSE IF x.hdr = <<>> THEN Err("MissingNonceHeader")
    ELSE LET one == RawOne(x.hdr[1])
         IN  IF one = <<>> THEN Err("EmptyNonceHeader")
             ELSE IF ~Utf8Valid(one[1]) THEN Err("MalformedNonceHeader")
             ELSE LET tok == SecondToken(SplitTerminator(one[1]))
                  IN  IF tok = <<>> THEN Err("MissingNonceHeader")
                      ELSE LET d == B64Decode(tok[1])
                           IN  IF d.ok THEN d ELSE Err("MalformedNonce")

(***************************************************************************)
(* The metadata response body, as what each step of fetch_metadata and     *)
(* decrypt_metadata makes of it: whether it parses as the JSON envelope,   *)
(* whether its field is base64, the length of the decoded payload, whether *)
(* the payload's tag is the one AEAD decryption computes, whether the      *)
(* plaintext parses as Metadata, and the IV that Metadata carries.         *)
(***************************************************************************)
MetaLens == {0} \cup ((TAG_LEN - 1)..(TAG_LEN + MaxMetaCipher))
IVs == 1..MaxIv
MetaBodies ==
    [json : BOOLEAN, b64 : BOOLEAN, rawLen : MetaLens, tagOk : BOOLEAN,
     parseOk : BOOLEAN, iv : IVs]

\* How a build treats raw.len() - 16 on a short payload: a debug build
\* panics on the subtraction, a release build wraps and split_at panics.
Builds == {"debug", "release"}

\* MetadataResponse::decrypt_metadata: [kind, err, ivRead, iv]. kind is "Ok"
\* or "Panic" (the function has no path that returns Err); ivRead tells
\* whether key_set.iv() was evaluated.
DecryptMetadata(b, build) ==
    IF ~b.b64
    THEN [kind |-> "Panic", err |-> "failed to decode metadata from server",
          ivRead |-> FALSE, iv |-> <<>>]
    ELSE IF b.rawLen < TAG_LEN
    THEN [kind |-> "Panic",
          err |-> IF build = "debug" THEN "attempt to subtract with overflow"
                  ELSE "assertion failed: mid <= len",
          ivRead |-> FALSE, iv |-> <<>>]
    ELSE IF ~b.tagOk
    THEN [kind |-> "Panic", err |-> "failed to decrypt metadata, invalid tag?",
          ivRead |-> TRUE, iv |-> <<>>]
    ELSE IF ~b.parseOk
    THEN [kind |-> "Panic", err |-> "failed to parse decrypted metadata as JSON",
          ivRead |-> TRUE, iv |-> <<>>]
    ELSE [kind |-> "Ok", err |-> "", ivRead |-> TRUE, iv |-> <<b.iv>>]

\* Download::fetch_metadata: [kind, err, sent, nonce, ivRead, iv]. sent tells
\* whether the metadata request was sent.
FetchMetadata(sigOk, x, b, build) ==
    LET fail(e, sent) == [kind |-> "Err", err |-> e, sent |-> sent,
                          nonce |-> <<>>, ivRead |-> FALSE, iv |-> <<>>]
    IN  IF ~sigOk THEN fail("ComputeSignatureFail", FALSE)
        ELSE LET nonce == MetaNonceOf(x)
             IN  IF ~nonce.ok THEN fail(nonce.err, TRUE)
                 ELSE IF ~b.json THEN fail("MalformedMetadata", TRUE)
                 ELSE LET d == DecryptMetadata(b, build)
                      IN  [kind |-> d.kind, err |-> d.err, sent |-> TRUE,
                           nonce |-> <<nonce.val>>, ivRead |-> d.ivRead,
                           iv |-> d.iv]

(***************************************************************************)
(* The state of one run of Download::invoke.                               *)
(***************************************************************************)
VARIABLES
    pc,         \* where invoke is
    outcome,    \* how invoke ended: [kind, stage, err]
    iv,         \* the KeySet's IV slot: <<>> until set_iv
    ivReads,    \* the reads of key.iv() made so far: [op, wasSet]
    ivSets,     \* the number of set_iv calls made so far
    authNonce,  \* the local auth_nonce
    metaNonce,  \* the local meta_nonce
    requests,   \* the requests sent so far: [url, signedWith]
    succeeded,  \* the handshake stages that returned Ok
    metaResp,   \* the metadata response body a failed metadata stage was given
    file,       \* downloaded.zip: [exists, plain]
    body,       \* the body response: [len, tagOk]
    delivered,  \* bytes the body reader has returned so far
    buf,        \* the chunk io::copy holds between its read and its write
    writer,     \* the ProgressWriter<EncryptedFileWriter>: [cur, verified, reporter]
    pushed,     \* the sum of the chunk sizes the writer has accepted
    progress,   \* the ProgressReporter: [starts, total, cur, finishes, finished]
    lock,       \* who holds the reporter's mutex
    seen,       \* the transferred value the polling reader saw last
    verifiedQ,  \* what verified() returned: <<>> until queried
    resp,       \* nonce extraction on its own: the exchange given
    extracted   \* nonce extraction on its own: what each stage makes of resp

vars == <<pc, outcome, iv, ivReads, ivSets, authNonce, metaNonce, requests,
          succeeded, metaResp, file, body, delivered, buf, writer, pushed,
          progress, lock, seen, verifiedQ, resp, extracted>>

keyVars == <<iv, ivReads, ivSets>>
bodyVars == <<body, delivered, buf, writer, pushed, verifiedQ>>
harnessVars == <<resp, extracted>>

Running == [kind |-> "Running", stage |-> "", err |-> ""]
Returned(stage, e) == [kind |-> "Err", stage |-> stage, err |-> e]
Panicked(stage, e) == [kind |-> "Panic", stage |-> stage, err |-> e]
Success == [kind |-> "Ok", stage |-> "", err |-> ""]

NoBody == [len |-> 0, tagOk |-> FALSE]
NoWriter == [cur |-> 0, verified |-> FALSE, reporter |-> FALSE]
NoExchange == [sendOk |-> FALSE, success |-> FALSE, hdr |-> <<>>]

\* KeySet::from(self.file), and the reporter as the caller hands it over.
Init ==
    /\ pc = "init"
    /\ outcome = Running
    /\ iv = <<>>
    /\ ivReads = {}
    /\ ivSets = 0
    /\ authNonce = <<>>
    /\ metaNonce = <<>>
    /\ requests = <<>>
    /\ succeeded = {}
    /\ metaResp = <<>>
    /\ file = [exists |-> FALSE, plain |-> 0]
    /\ body = NoBody
    /\ delivered = 0
    /\ buf = 0
    /\ writer = NoWriter
    /\ pushed = 0
    /\ progress = [starts |-> 0, total |-> 0, cur |-> 0, finishes |-> 0,
                   finished |-> FALSE]
    /\ lock = "free"
    /\ seen = 0
    /\ verifiedQ = <<>>
    /\ resp = NoExchange
    /\ extracted = <<>>

(***************************************************************************)
(* Download::invoke, one action per request, per chunk and per critical    *)
(* section.                                                                *)
(***************************************************************************)
\* A nonce as a local of invoke holds it: the stage that issued it and its
\* bytes.
Nonce(stage, bytes) == [from |-> stage, bytes |-> bytes]

\* The nonce fetch_metadata signs, by the stage that issued it: its
\* auth_nonce argument. sent are the requests made so far.
MetaSignedWith(an, sent) == an[1].from

\* A variant of FileSignedWith that signs with the nonce of the request before.
FileSignedWith_Stale(mn, sent) == sent[Len(sent)].signedWith

\* The nonce create_file_reader signs, by the stage that issued it: its
\* meta_nonce argument.
FileSignedWith(mn, sent) == mn[1].from

\* A variant of AfterAuth that tries the auth stage again after a failure.
AfterAuth_Retry(r) == IF r.ok THEN "auth_ok" ELSE "init"

\* The ? of invoke on what fetch_auth_nonce returned: where invoke goes on.
AfterAuth(r) == IF r.ok THEN "auth_ok" ELSE "done"

\* let auth_nonce = self.fetch_auth_nonce(client).map_err(AuthError)?
FetchAuthNonce ==
    /\ pc = "init"
    /\ \E x \in Exchanges :
         LET r == AuthNonceOf(x)
         IN  /\ requests' = Append(requests, [url |-> "download", signedWith |-> "none"])
             /\ pc' = AfterAuth(r)
             /\ authNonce' = IF r.ok THEN <<Nonce("auth", r.val)>> ELSE <<>>
             /\ succeeded' = IF r.ok THEN succeeded \cup {"auth"} ELSE succeeded
             /\ outcome' = IF r.ok THEN outcome ELSE Returned("AuthError", r.err)
    /\ UNCHANGED <<keyVars, metaNonce, metaResp, file, bodyVars, progress, lock,
                   seen, harnessVars>>

\* The response body fetch_metadata reads: none unless the signature was
\* computed and the nonce header was accepted.
NoMetaBody == [json |-> FALSE, b64 |-> FALSE, rawLen |-> 0, tagOk |-> FALSE,
               parseOk |-> FALSE, iv |-> 1]
BodyRead(sigOk, x) == sigOk /\ MetaNonceOf(x).ok

\* A variant of SetIvCalls that sets the IV a second time.
SetIvCalls_Twice(r) == IF r.kind = "Ok" THEN 2 ELSE 0

\* The set_iv calls fetch_meta_nonce makes on what fetch_metadata returned:
\* the ? leaves before key.set_iv(metadata.iv()) unless it is Ok.
SetIvCalls(r) == IF r.kind = "Ok" THEN 1 ELSE 0

\* A variant of AfterMeta that goes on after a failed metadata stage.
AfterMeta_Continue(r) == "meta_ok"

\* The ? of invoke on what fetch_meta_nonce returned: where invoke goes on.
AfterMeta(r) == IF r.kind = "Ok" THEN "meta_ok" ELSE "done"

\* let meta_nonce = self.fetch_meta_nonce(&client, &mut key, auth_nonce)
\*     .map_err(MetaError)?
\* fetch_meta_nonce calls fetch_metadata and then key.set_iv(metadata.iv()).
FetchMetaNonce ==
    /\ pc = "auth_ok"
    /\ \E sigOk \in BOOLEAN, x \in Exchanges :
         \E b \in (IF BodyRead(sigOk, x) THEN MetaBodies ELSE {NoMetaBody}),
            build \in (IF BodyRead(sigOk, x) THEN Builds ELSE {"debug"}) :
           LET r == FetchMetadata(sigOk, x, b, build)
           IN  /\ requests' = IF r.sent
                              THEN Append(requests, [url |-> "meta",
                                     signedWith |-> MetaSignedWith(authNonce, requests)])
                              ELSE requests
               /\ ivReads' = IF r.ivRead
                             THEN ivReads \cup {[op |-> "decrypt_metadata", wasSet |-> iv # <<>>]}
                             ELSE ivReads
               /\ authNonce' = <<>>
               /\ iv' = IF SetIvCalls(r) > 0 THEN r.iv ELSE iv
               /\ ivSets' = ivSets + SetIvCalls(r)
               /\ pc' = AfterMeta(r)
               /\ IF r.kind = "Ok"
                  THEN /\ metaNonce' = <<Nonce("meta", r.nonce[1])>>
                       /\ succeeded' = succeeded \cup {"meta"}
                       /\ metaResp' = <<>>
                       /\ UNCHANGED outcome
                  ELSE /\ outcome' = IF r.kind = "Err"
                                     THEN Returned("MetaError", r.err)
                                     ELSE Panicked("meta", r.err)
                       /\ metaResp' = IF BodyRead(sigOk, x) THEN <<b>> ELSE <<>>
                       /\ UNCHANGED <<metaNonce, succeeded>>
    /\ UNCHANGED <<file, bodyVars, progress, lock, seen, harnessVars>>

\* let out = File::create("downloaded.zip").map_err(FileOpenError)?
OpenFile ==
    /\ pc = "meta_ok"
    /\ \E created \in BOOLEAN :
         IF created
         THEN /\ file' = [exists |-> TRUE, plain |-> 0]
              /\ pc' = "file_open"
              /\ UNCHANGED outcome
         ELSE /\ outcome' = Returned("FileOpenError", "io")
              /\ pc' = "done"
              /\ UNCHANGED file
    /\ UNCHANGED <<keyVars, authNonce, metaNonce, requests, succeeded, metaResp,
                   bodyVars, progress, lock, seen, harnessVars>>

\* The Content-Length values of the body response.
Lens == (TAG_LEN - 1)..(TAG_LEN + MaxPlain)

\* Download::create_file_reader: the panic it ends in, "" if it returns.
FileReaderPanic(sigOk, sendOk, success, hasLen) ==
    IF ~sigOk THEN "failed to compute file signature"
    ELSE IF ~sendOk THEN "failed to fetch file, failed to send request"
    ELSE IF ~success THEN "failed to fetch file, request status is not successful"
    ELSE IF ~hasLen THEN "failed to fetch file, missing content length header"
    ELSE ""

\* let (reader, len) = self.create_file_reader(&key, meta_nonce, &client)
CreateFileReader ==
    /\ pc = "file_open"
    /\ \E sigOk \in BOOLEAN, sendOk \in BOOLEAN, success \in BOOLEAN,
          hasLen \in BOOLEAN, len \in Lens, tagOk \in BOOLEAN :
         LET e == FileReaderPanic(sigOk, sendOk, success, hasLen)
         IN  /\ requests' = IF sigOk
                            THEN Append(requests, [url |-> "file",
                                     signedWith |-> FileSignedWith(metaNonce, requests)])
                            ELSE requests
             /\ metaNonce' = <<>>
             /\ IF e = ""
                THEN /\ body' = [len |-> len, tagOk |-> tagOk]
                     /\ pc' = "reader_ok"
                     /\ UNCHANGED outcome
                ELSE /\ outcome' = Panicked("body", e)
                     /\ pc' = "done"
                     /\ UNCHANGED body
    /\ UNCHANGED <<keyVars, authNonce, succeeded, metaResp, file, delivered, buf,
                   writer, pushed, verifiedQ, progress, lock, seen, harnessVars>>

\* A variant of NewWriter without writer.set_reporter(reporter.clone()).
NewWriter_NoReporter == [cur |-> 0, verified |-> FALSE, reporter |-> FALSE]

\* Download::create_file_writer, when both constructors return Ok: the
\* writer it returns, the reporter set on it.
NewWriter == [cur |-> 0, verified |-> FALSE, reporter |-> TRUE]

\* let writer = self.create_file_writer(out, len, &key, reporter.clone())
CreateFileWriter ==
    /\ pc = "reader_ok"
    /\ ivReads' = ivReads \cup {[op |-> "create_file_writer", wasSet |-> iv # <<>>]}
    /\ \E built \in BOOLEAN :
         IF built
         THEN /\ writer' = NewWriter
              /\ pc' = "writer_ok"
              /\ UNCHANGED outcome
         ELSE /\ outcome' = Panicked("body", "failed to create encrypted writer")
              /\ pc' = "done"
              /\ UNCHANGED writer
    /\ UNCHANGED <<iv, ivSets, authNonce, metaNonce, requests, succeeded, metaResp,
                   file, body, delivered, buf, pushed, verifiedQ, progress, lock,
                   seen, harnessVars>>

(***************************************************************************)
(* Download::download: start, io::copy chunk by chunk, finish, verify.     *)
(* The download path takes the reporter's mutex for one call at a time     *)
(* (the guard is a temporary of the statement); a progress reader polls    *)
(* the reporter under the same mutex.                                      *)
(***************************************************************************)
\* reporter.lock() of start: blocks until the mutex is free.
StartLock ==
    /\ pc = "writer_ok"
    /\ lock = "free"
    /\ lock' = "download"
    /\ pc' = "start_locked"
    /\ UNCHANGED <<outcome, keyVars, authNonce, metaNonce, requests, succeeded,
                   metaResp, file, bodyVars, progress, seen, harnessVars>>

\* A variant of LockAfterStart that keeps the guard of start for the rest of
\* download.
LockAfterStart_Held == "download"

\* Who holds the mutex after the statement that calls start: the guard is a
\* temporary of that statement.
LockAfterStart == "free"

\* A variant of StartTotal that starts the reporter with no length.
StartTotal_Zero(b) == 0

\* The total start is called with: the len of the body response.
StartTotal(b) == b.len

\* ProgressReporter::start(len), and the guard dropped.
Start ==
    /\ pc = "start_locked"
    /\ progress' = [progress EXCEPT !.starts = @ + 1, !.total = StartTotal(body),
                                    !.cur = 0]
    /\ lock' = LockAfterStart
    /\ pc' = "copy"
    /\ UNCHANGED <<outcome, keyVars, authNonce, metaNonce, requests, succeeded,
                   metaResp, file, bodyVars, seen, harnessVars>>

\* io::copy reads the next chunk: some bytes, the end of the stream (also
\* before Content-Length bytes came), or a read error.
CopyRead ==
    /\ pc = "copy"
    /\ \/ \E n \in 1..(body.len + MaxExtra - delivered) :
            /\ buf' = n
            /\ delivered' = delivered + n
            /\ pc' = "copy_write"
            /\ UNCHANGED outcome
       \/ /\ pc' = "finish_wait"
          /\ UNCHANGED <<outcome, buf, delivered>>
       \/ /\ outcome' = Panicked("body", "failed to download and decrypt file")
          /\ pc' = "done"
          /\ UNCHANGED <<buf, delivered>>
    /\ UNCHANGED <<keyVars, authNonce, metaNonce, requests, succeeded, metaResp,
                   file, body, writer, pushed, verifiedQ, progress, lock, seen,
                   harnessVars>>

\* The plaintext bytes in the file once cur bytes of a len-byte stream went
\* through the EncryptedFileWriter: the trailing TAG_LEN bytes are withheld.
PlainWritten(cur, len) ==
    IF cur <= len - TAG_LEN THEN cur
    ELSE IF len >= TAG_LEN THEN len - TAG_LEN ELSE 0

\* EncryptedFileWriter::write of n bytes: Err when more bytes are pushed than
\* the declared length or a block fails to decrypt; the tag is compared when
\* the declared length is reached.
EncryptedWrite(w, bd, n, cryptOk) ==
    IF w.cur + n > bd.len \/ ~cryptOk THEN Err("write")
    ELSE Ok([w EXCEPT !.cur = @ + n,
                      !.verified = (w.cur + n = bd.len /\ bd.len >= TAG_LEN /\ bd.tagOk)])

\* io::copy writes the chunk: ProgressWriter::write hands it to the
\* EncryptedFileWriter and then reports it, if a reporter is set.
CopyWrite ==
    /\ pc = "copy_write"
    /\ \E cryptOk \in BOOLEAN :
         LET r == EncryptedWrite(writer, body, buf, cryptOk)
         IN  IF r.ok
             THEN /\ writer' = r.val
                  /\ file' = [file EXCEPT !.plain = PlainWritten(r.val.cur, body.len)]
                  /\ pushed' = pushed + buf
                  /\ pc' = IF writer.reporter THEN "add_wait" ELSE "copy"
                  /\ UNCHANGED outcome
             ELSE /\ outcome' = Panicked("body", "failed to download and decrypt file")
                  /\ pc' = "done"
                  /\ UNCHANGED <<writer, file, pushed>>
    /\ UNCHANGED <<keyVars, authNonce, metaNonce, requests, succeeded, metaResp,
                   body, delivered, buf, verifiedQ, progress, lock, seen, harnessVars>>

\* ProgressWriter::write takes the reporter's mutex for the chunk.
AddLock ==
    /\ pc = "add_wait"
    /\ lock = "free"
    /\ lock' = "download"
    /\ pc' = "add_locked"
    /\ UNCHANGED <<outcome, keyVars, authNonce, metaNonce, requests, succeeded,
                   metaResp, file, bodyVars, progress, seen, harnessVars>>

\* ProgressReporter::add(n), and the guard dropped.
Add ==
    /\ pc = "add_locked"
    /\ progress' = [progress EXCEPT !.cur = @ + buf]
    /\ lock' = "free"
    /\ pc' = "copy"
    /\ UNCHANGED <<outcome, keyVars, authNonce, metaNonce, requests, succeeded,
                   metaResp, file, bodyVars, seen, harnessVars>>

\* reporter.lock() of finish, after io::copy returned Ok.
FinishLock ==
    /\ pc = "finish_wait"
    /\ lock = "free"
    /\ lock' = "download"
    /\ pc' = "finish_locked"
    /\ UNCHANGED <<outcome, keyVars, authNonce, metaNonce, requests, succeeded,
                   metaResp, file, bodyVars, progress, seen, harnessVars>>

\* ProgressReporter::finish(), and the guard dropped.
Finish ==
    /\ pc = "finish_locked"
    /\ progress' = [progress EXCEPT !.finishes = @ + 1, !.finished = TRUE]
    /\ lock' = "free"
    /\ pc' = "verify"
    /\ UNCHANGED <<outcome, keyVars, authNonce, metaNonce, requests, succeeded,
                   metaResp, file, bodyVars, seen, harnessVars>>

\* A variant of AfterVerify without the assert of download.
AfterVerify_NoAssert(v) == Success

\* How invoke ends on what verified() returned: the assert of download
\* panics on false; on true download returns and invoke returns Ok(()).
AfterVerify(v) ==
    IF v THEN Success
    ELSE Panicked("body", "downloaded and decrypted file could not be verified")

\* assert!(writer.unwrap().verified(), ...), and the Ok(()) of invoke.
Verify ==
    /\ pc = "verify"
    /\ verifiedQ' = <<writer.verified>>
    /\ outcome' = AfterVerify(writer.verified)
    /\ pc' = "done"
    /\ UNCHANGED <<keyVars, authNonce, metaNonce, requests, succeeded, metaResp,
                   file, body, delivered, buf, writer, pushed, progress, lock,
                   seen, harnessVars>>

\* The progress reader takes the reporter's mutex.
ReaderLock ==
    /\ lock = "free"
    /\ lock' = "reader"
    /\ UNCHANGED <<pc, outcome, keyVars, authNonce, metaNonce, requests, succeeded,
                   metaResp, file, bodyVars, progress, seen, harnessVars>>

\* The progress reader reads the transferred counter and drops the guard.
ReaderPoll ==
    /\ lock = "reader"
    /\ seen' = progress.cur
    /\ lock' = "free"
    /\ UNCHANGED <<pc, outcome, keyVars, authNonce, metaNonce, requests, succeeded,
                   metaResp, file, bodyVars, progress, harnessVars>>

Next ==
    \/ FetchAuthNonce
    \/ FetchMetaNonce
    \/ OpenFile
    \/ CreateFileReader
    \/ CreateFileWriter
    \/ StartLock
    \/ Start
    \/ CopyRead
    \/ CopyWrite
    \/ AddLock
    \/ Add
    \/ FinishLock
    \/ Finish
    \/ Verify
    \/ ReaderLock
    \/ ReaderPoll

Spec == Init /\ [][Next]_vars

(***************************************************************************)
(* The nonce extraction on its own: every exchange, and what each of the   *)
(* two stages makes of it.                                                 *)
(***************************************************************************)
NonceInit ==
    /\ pc = "init"
    /\ outcome = Running
    /\ iv = <<>>
    /\ ivReads = {}
    /\ ivSets = 0
    /\ authNonce = <<>>
    /\ metaNonce = <<>>
    /\ requests = <<>>
    /\ succeeded = {}
    /\ metaResp = <<>>
    /\ file = [exists |-> FALSE, plain |-> 0]
    /\ body = NoBody
    /\ delivered = 0
    /\ buf = 0
    /\ writer = NoWriter
    /\ pushed = 0
    /\ progress = [starts |-> 0, total |-> 0, cur |-> 0, finishes |-> 0,
                   finished |-> FALSE]
    /\ lock = "free"
    /\ seen = 0
    /\ verifiedQ = <<>>
    /\ resp \in Exchanges
    /\ extracted = <<>>

ExtractNonce ==
    /\ extracted = <<>>
    /\ extracted' = <<[auth |-> AuthNonceOf(resp), meta |-> MetaNonceOf(resp)]>>
    /\ UNCHANGED <<pc, outcome, keyVars, authNonce, metaNonce, requests, succeeded,
                   metaResp, file, bodyVars, progress, lock, seen, resp>>

NonceNext == ExtractNonce

SpecNonce == NonceInit /\ [][NonceNext]_vars

(***************************************************************************)
(* The claims.                                                             *)
(***************************************************************************)
Failed == outcome.kind \in {"Err", "Panic"}

\* C1: invoke returns Ok(()) only after the whole body went through the
\* writer and verified() returned true; whenever verified() returned false,
\* invoke has not returned Ok(()).
C1_OkOnlyAfterVerifiedBody ==
    /\ outcome.kind = "Ok" =>
         /\ verifiedQ = <<TRUE>>
         /\ writer.cur = body.len
         /\ pushed = body.len
    /\ verifiedQ = <<FALSE>> => outcome.kind # "Ok"

\* C1, its case: a body streamed in full whose tag does not match.
C1_Witness ==
    /\ pc = "done"
    /\ verifiedQ = <<FALSE>>
    /\ writer.cur = body.len
    /\ body.len >= TAG_LEN

\* C2: after a fully streamed body failed verification, the run does not end
\* with the output file in place holding the unverified plaintext.
C2_UnverifiedOutputRemoved ==
    (pc = "done" /\ verifiedQ = <<FALSE>> /\ writer.cur = body.len)
        => ~(file.exists /\ file.plain > 0)

\* C3: every failure ends invoke in a returned, typed error naming its
\* stage: AuthError for the auth stage, MetaError for the metadata stage,
\* a returned error (never another kind of termination) for the body stage.
C3_EveryFailureIsReturnedError ==
    (pc = "done" /\ outcome.kind # "Ok") =>
        /\ outcome.kind = "Err"
        /\ "auth" \notin succeeded => outcome.stage = "AuthError"
        /\ ("auth" \in succeeded /\ "meta" \notin succeeded) => outcome.stage = "MetaError"
        /\ "meta" \in succeeded => outcome.stage \notin {"AuthError", "MetaError"}

Urls == [i \in 1..Len(requests) |-> requests[i].url]

\* C4: the auth, metadata and body requests are each sent at most once, in
\* that order, a later one only after the earlier stage succeeded, and no
\* request is sent once the run has failed.
C4_LinearSingleAttempt ==
    /\ [](/\ \E k \in 0..3 : Urls = SubSeq(<<"download", "meta", "file">>, 1, k)
          /\ Len(requests) >= 2 => "auth" \in succeeded
          /\ Len(requests) >= 3 => "meta" \in succeeded)
    /\ [][Failed => requests' = requests]_vars

\* C4, its case: the metadata request failed and the run ended with the two
\* requests sent.
C4_Witness ==
    /\ pc = "done"
    /\ outcome.stage = "MetaError"
    /\ Len(requests) = 2

\* The header of resp is a single line.
OneLine == resp.hdr # <<>> /\ Len(resp.hdr[1]) = 1
TheLine == resp.hdr[1][1]

\* The layout '<scheme> <base64-nonce>': two non-empty tokens, one space.
TwoTokens(line) ==
    \E k \in 2..(Len(line) - 1) :
        /\ line[k] = ByteSpace
        /\ \A i \in 1..Len(line) : i # k => line[i] # ByteSpace
NonceToken(line) ==
    LET k == CHOOSE i \in 1..Len(line) : line[i] = ByteSpace
    IN  SubSeq(line, k + 1, Len(line))

\* C5: fetch_auth_nonce gives each failure point its own kind: a non-success
\* status NonceReqStatusErr, an absent header MissingNonceHeader, a header
\* present but empty EmptyNonceHeader, a header that is not UTF-8
\* MalformedNonceHeader, a second token that is not base64 MalformedNonce;
\* and only a well-formed two-token header with a base64 second token
\* returns the decoded nonce.
C5_AuthNonceClassification ==
    (extracted # <<>> /\ resp.sendOk) =>
        LET r == extracted[1].auth
        IN  /\ ~resp.success => r = Err("NonceReqStatusErr")
            /\ (resp.success /\ resp.hdr = <<>>) => r = Err("MissingNonceHeader")
            /\ (resp.success /\ OneLine /\ TheLine = <<>>) => r = Err("EmptyNonceHeader")
            /\ (resp.success /\ OneLine /\ ~Utf8Valid(TheLine))
                   => r = Err("MalformedNonceHeader")
            /\ (resp.success /\ OneLine /\ Utf8Valid(TheLine) /\ TwoTokens(TheLine)
                  /\ ~B64Decode(NonceToken(TheLine)).ok) => r = Err("MalformedNonce")
            /\ r.ok => /\ resp.success /\ OneLine /\ TwoTokens(TheLine)
                       /\ r = B64Decode(NonceToken(TheLine))

\* The layouts C6 lists: the empty string, a scheme only, a scheme followed
\* by a trailing space, tokens separated by more than one space.
SchemeOnly(line) == line # <<>> /\ \A i \in 1..Len(line) : line[i] # ByteSpace
TrailingSpace(line) ==
    /\ Len(line) >= 2
    /\ line[Len(line)] = ByteSpace
    /\ \A i \in 1..(Len(line) - 1) : line[i] # ByteSpace
WideGap(line) ==
    /\ Len(line) >= 4
    /\ line[1] # ByteSpace
    /\ line[Len(line)] # ByteSpace
    /\ \E i \in 2..(Len(line) - 1) : line[i] = ByteSpace /\ line[i + 1] = ByteSpace
NotTwoTokenLayout(line) ==
    line = <<>> \/ SchemeOnly(line) \/ TrailingSpace(line) \/ WideGap(line)

\* C6: on a header value without the two-token layout, both stages' nonce
\* extraction returns an error, never Ok (with an empty nonce or any other).
C6_BadLayoutIsError ==
    (extracted # <<>> /\ resp.sendOk /\ resp.success /\ OneLine
       /\ Utf8Valid(TheLine) /\ NotTwoTokenLayout(TheLine))
        => ~extracted[1].auth.ok /\ ~extracted[1].meta.ok

\* The metadata response a failed metadata stage decoded: its payload.
MetaPayload == metaResp # <<>> /\ metaResp[1].json /\ metaResp[1].b64

\* C7: a decoded metadata payload shorter than the tag makes the metadata
\* stage return MetaError::MalformedMetadata.
C7_ShortPayloadIsMalformedMetadata ==
    (pc = "done" /\ MetaPayload /\ metaResp[1].rawLen < TAG_LEN)
        => outcome = Returned("MetaError", "MalformedMetadata")

\* C8: a tag mismatch in the metadata makes invoke return
\* MetaError(DecryptMetadataFail), with the IV not set, the output file not
\* opened and the body request not sent.
C8_TagMismatchIsDecryptMetadataFail ==
    (pc = "done" /\ MetaPayload /\ metaResp[1].rawLen >= TAG_LEN /\ ~metaResp[1].tagOk)
        => /\ outcome = Returned("MetaError", "DecryptMetadataFail")
           /\ iv = <<>>
           /\ ~file.exists
           /\ \A i \in 1..Len(requests) : requests[i].url # "file"

\* C9: no decryption of a run reads the KeySet's IV slot before set_iv.
C9_NoIvReadBeforeSetIv == \A r \in ivReads : r.wasSet

\* C10: the reporter's transferred value is the sum of the chunk sizes the
\* writer took (less the chunk whose add is still to come), it never
\* decreases, and no poll of the reader sees it otherwise.
C10_TransferredIsSumOfChunks ==
    /\ [](/\ pc \in {"add_wait", "add_locked"} => progress.cur + buf = pushed
          /\ pc \notin {"add_wait", "add_locked"} => progress.cur = pushed
          /\ seen <= progress.cur)
    /\ [][progress'.cur >= progress.cur /\ seen' >= seen]_vars

\* C10, its case: a body of several chunks went through the writer in full
\* while the reader polled in between.
C10_Witness ==
    /\ pc = "finish_wait"
    /\ progress.cur = body.len
    /\ pushed = body.len
    /\ seen > 0
    /\ seen < progress.cur

\* C11: each nonce signs one request and is gone: the auth nonce signs the
\* metadata request only, the metadata stage's nonce the body request only,
\* and the body request is never signed with the auth nonce.
C11_NonceSignsOneRequest ==
    /\ \A i \in 1..Len(requests) :
          /\ requests[i].url = "download" => requests[i].signedWith = "none"
          /\ requests[i].url = "meta" => requests[i].signedWith = "auth"
          /\ requests[i].url = "file" => requests[i].signedWith = "meta"
    /\ \A i, j \in 1..Len(requests) :
          (i # j /\ requests[i].signedWith = requests[j].signedWith)
              => requests[i].signedWith = "none"
    /\ (\E i \in 1..Len(requests) : requests[i].signedWith = "auth") => authNonce = <<>>
    /\ (\E i \in 1..Len(requests) : requests[i].signedWith = "meta") => metaNonce = <<>>

\* C11, its case: all three requests were sent.
C11_Witness ==
    /\ Len(requests) = 3
    /\ requests[3].url = "file"
    /\ pc = "reader_ok"

\* C12: set_iv is called once, on a run whose metadata stage succeeded and
\* with the IV of the decrypted metadata, never on a run whose metadata stage
\* failed and never a second time; the file writer reads key.iv() only after
\* set_iv.
C12_IvSetOnceFromMetadata ==
    /\ ivSets <= 1
    /\ ivSets = 1 <=> "meta" \in succeeded
    /\ iv # <<>> <=> ivSets = 1
    /\ iv # <<>> => iv[1] \in IVs
    /\ \A r \in ivReads : r.op = "create_file_writer" => r.wasSet
    /\ pc \in {"writer_ok", "start_locked", "copy", "copy_write", "add_wait",
               "add_locked", "finish_wait", "finish_locked", "verify"}
          => ivSets = 1

\* C12, its case: the file writer was constructed, reading the IV set_iv set.
C12_Witness ==
    /\ pc = "writer_ok"
    /\ [op |-> "create_file_writer", wasSet |-> TRUE] \in ivReads
    /\ iv # <<>>

\* C13: on every exchange the header handling of fetch_metadata yields what
\* fetch_auth_nonce yields: the same nonce bytes, or the error kind of the
\* same name.
C13_MetaNonceAsAuthNonce ==
    extracted # <<>> => extracted[1].meta = extracted[1].auth

\* C13, its case: a header both stages take a nonce of some bytes from.
C13_Witness ==
    /\ extracted # <<>>
    /\ extracted[1].auth.ok
    /\ extracted[1].auth.val # <<>>

\* The positions of download at which it holds the reporter's mutex.
LockedPcs == {"start_locked", "add_locked", "finish_locked"}

\* C14: the download path holds the reporter's mutex for one call only: it
\* holds it at none of the steps of io::copy (a read of the body, a chunk
\* handed to the writer) nor while it waits for it, and having taken it, its
\* next step releases it.
C14_LockHeldForOneCallOnly ==
    /\ [](/\ lock = "download" <=> pc \in LockedPcs
          /\ pc \in {"copy", "copy_write", "add_wait", "finish_wait", "verify"}
                => lock # "download")
    /\ [][lock = "download" => lock' = "free"]_vars

\* C14, its case: the writer waits to report a chunk while the reader holds
\* the mutex.
C14_Witness ==
    /\ pc = "add_wait"
    /\ lock = "reader"
    /\ progress.starts = 1

\* io::copy returned Err: the expect on it panicked.
CopyFailed == outcome = Panicked("body", "failed to download and decrypt file")

\* C15: start is called at most once, with the Content-Length of the body
\* response, and has been called once before any chunk is written; finish is
\* called at most once, only after io::copy returned Ok, and before
\* verified() is queried; the finished flag is never set on a run whose copy
\* failed.
C15_StartAddsFinishVerify ==
    /\ progress.starts <= 1
    /\ progress.finishes <= 1
    /\ progress.starts = 1 => progress.total = body.len
    /\ progress.starts = 0 => (pushed = 0 /\ progress.cur = 0 /\ progress.finishes = 0)
    /\ pc \in {"copy", "copy_write", "add_wait", "add_locked", "finish_wait",
               "finish_locked", "verify"} => progress.starts = 1
    /\ progress.finishes = 1 => (pc \in {"verify", "done"} /\ ~CopyFailed)
    /\ progress.finished <=> progress.finishes = 1
    /\ verifiedQ # <<>> => progress.finishes = 1
    /\ CopyFailed => ~progress.finished

\* C15, its case: a run that went through start, the adds of a whole body,
\* finish and the query of verified().
C15_Witness ==
    /\ pc = "done"
    /\ verifiedQ # <<>>
    /\ progress.starts = 1
    /\ progress.finishes = 1
    /\ progress.cur = progress.total

\* C16: when the body stream ended before the writer took Content-Length
\* bytes, verified() does not return true and invoke does not return Ok(()).
C16_TruncatedBodyNotAccepted ==
    /\ (verifiedQ # <<>> /\ pushed < body.len)
          => (verifiedQ = <<FALSE>> /\ outcome.kind = "Panic")
    /\ (pc \in {"finish_wait", "finish_locked", "verify"} /\ pushed < body.len)
          => ~writer.verified

\* C16, its case: the stream ended after some but not all of the declared
\* bytes, and verified() was queried.
C16_Witness ==
    /\ pc = "done"
    /\ verifiedQ # <<>>
    /\ pushed > 0
    /\ pushed < body.len

\* The reporter as invoke was given it.
UntouchedProgress ==
    progress = [starts |-> 0, total |-> 0, cur |-> 0, finishes |-> 0,
                finished |-> FALSE]

\* C17: whenever invoke returns AuthError or MetaError, the output file was
\* not created, the body request was not sent and the reporter is as it was
\* given: neither start nor finish was called.
C17_HandshakeFailureHasNoEffects ==
    outcome.stage \in {"AuthError", "MetaError"} =>
        /\ pc = "done"
        /\ ~file.exists
        /\ \A i \in 1..Len(requests) : requests[i].url # "file"
        /\ UntouchedProgress
        /\ writer = NoWriter

\* C17, its case: the metadata stage returned an error after its request
\* was answered.
C17_Witness ==
    /\ outcome = Returned("MetaError", "MalformedMetadata")
    /\ Len(requests) = 2

=============================================================================
